---- MODULE Spec2Model ----
(***************************************************************************)
(* Model of main.py: a gzip'ed line-delimited JSON file is read in chunks  *)
(* (chunked_reader), each chunk is counted by a pool worker                *)
(* (process_chunk), the partial Counters are merged in completion order    *)
(* (final.update) and the final Counter is printed.                        *)
(***************************************************************************)
EXTENDS Integers, Sequences, FiniteSets, TLC

(* ---------------------------- bounds ----------------------------------- *)
MaxLines == 3      \* longest input file, in lines
MaxBatch == 2      \* largest batch size handed to chunked_reader
MaxWorkers == 2    \* largest pool size (cpu_count())
MaxLiveLines == 2  \* longest input file of the fair specification

(* ---------------------------- program constant ------------------------- *)
CHUNK_SIZE == 20000

(* ---------------------------- input lines ------------------------------ *)
\* Raw text of the lines a file may hold.  The empty line is shown as the
\* file yields it; the trailing newline of the other lines is left out.
\* The watched key holds a JSON scalar or null wherever it occurs.
LineTexts ==
    { "\n",                  \* empty line: nothing but its newline
      "not json",            \* non-JSON text / truncated JSON
      "123",                 \* valid JSON, not an object
      "{\"other\":1}",       \* object without the watched key
      "{\"status\":null}",   \* watched key holds JSON null
      "{\"status\":\"1\"}",  \* string "1"
      "{\"status\":1}",      \* number 1
      "{\"status\":true}" }  \* boolean true

\* The lines of the files that are read in several chunks: one line of each
\* way a line can go (blank, rejected, raising, counted) and the two values
\* that Python takes for equal keys.
FewLineTexts == { "\n", "not json", "123", "{\"status\":1}", "{\"status\":true}" }

LiveLineTexts == { "\n", "123", "{\"status\":1}", "{\"status\":true}" }

\* JSON scalars that occur under the watched key, tagged with their JSON type.
Values == { "str:1", "num:1", "bool:true" }

JsonType(v) ==
    CASE v = "str:1" -> "string"
      [] v = "num:1" -> "number"
      [] v = "bool:true" -> "boolean"
      [] OTHER -> "none"

\* str.strip(): the only text of LineTexts that is all whitespace is the empty
\* line, and no other text has whitespace at its ends.
strip(line) == IF line = "\n" THEN "" ELSE line

\* json.loads(text): either a JSONDecodeError or the parsed value, described
\* by whether it is a dict and what dict.get("status") would return
\* ("None" for an absent key and for JSON null).
json_loads(text) ==
    CASE text = "123" ->
            [err |-> FALSE, isDict |-> FALSE, status |-> "None"]
      [] text = "{\"other\":1}" ->
            [err |-> FALSE, isDict |-> TRUE, status |-> "None"]
      [] text = "{\"status\":null}" ->
            [err |-> FALSE, isDict |-> TRUE, status |-> "None"]
      [] text = "{\"status\":\"1\"}" ->
            [err |-> FALSE, isDict |-> TRUE, status |-> "str:1"]
      [] text = "{\"status\":1}" ->
            [err |-> FALSE, isDict |-> TRUE, status |-> "num:1"]
      [] text = "{\"status\":true}" ->
            [err |-> FALSE, isDict |-> TRUE, status |-> "bool:true"]
      [] OTHER ->
            [err |-> TRUE, isDict |-> FALSE, status |-> "None"]

(* ---------------------------- Counter ---------------------------------- *)
\* A Counter is a function from its stored keys to positive counts.
EmptyCounter == [k \in {} |-> 0]

\* Python's key equality (__eq__ plus __hash__): bool is a subclass of int,
\* so True == 1 and hash(True) == hash(1); a str never equals a number.
PyEq(a, b) ==
    \/ a = b
    \/ {a, b} = {"num:1", "bool:true"}

\* The key already stored in c that val hits, as a set (empty or singleton).
Slot(c, val) == { k \in DOMAIN c : PyEq(k, val) }

\* c[val] += n: an existing equal key keeps its stored form.
CounterAdd(c, val, n) ==
    IF Slot(c, val) # {}
    THEN [k \in DOMAIN c |-> IF k \in Slot(c, val) THEN c[k] + n ELSE c[k]]
    ELSE [k \in DOMAIN c \cup {val} |-> IF k = val THEN n ELSE c[k]]

\* Keys of a Counter in insertion order are not kept: no two stored keys are
\* PyEq, so the order in which update() walks them does not change the result.
RECURSIVE UpdateKeys(_, _, _)
UpdateKeys(c, other, keys) ==
    IF keys = {} THEN c
    ELSE LET k == CHOOSE x \in keys : TRUE
         IN UpdateKeys(CounterAdd(c, k, other[k]), other, keys \ {k})

\* Counter.update(other)
CounterUpdate(c, other) == UpdateKeys(c, other, DOMAIN other)

(* ---------------------------- process_chunk ---------------------------- *)
OkResult(c) == [status |-> "ok", c |-> c, exc |-> ""]
RaiseResult(e) == [status |-> "raise", c |-> EmptyCounter, exc |-> e]

\* ProcessLine with the except clause missing: a parse failure leaves the
\* function.
ProcessLineNoExcept(c, line) ==
    LET text == strip(line)
        obj == json_loads(text)
    IN IF text = "" THEN OkResult(c)
       ELSE IF obj.err THEN RaiseResult("JSONDecodeError")
       ELSE IF ~obj.isDict THEN RaiseResult("AttributeError")
       ELSE IF obj.status = "None" THEN OkResult(c)
       ELSE OkResult(CounterAdd(c, obj.status, 1))

\* One iteration of the for loop on Counter c: the Counter after the line,
\* or the exception that leaves the function.
ProcessLine(c, line) ==
    LET text == strip(line)
        obj == json_loads(text)
    IN IF text = "" THEN OkResult(c)                      \* continue
       ELSE IF obj.err THEN OkResult(c)                   \* except JSONDecodeError: pass
       ELSE IF ~obj.isDict THEN RaiseResult("AttributeError")  \* obj.get
       ELSE IF obj.status = "None" THEN OkResult(c)
       ELSE OkResult(CounterAdd(c, obj.status, 1))

RECURSIVE ChunkLoop(_, _, _)
ChunkLoop(c, lines, i) ==
    IF i > Len(lines) THEN OkResult(c)
    ELSE LET r == ProcessLine(c, lines[i])
         IN IF r.status = "raise" THEN r
            ELSE ChunkLoop(r.c, lines, i + 1)

process_chunk(lines) == ChunkLoop(EmptyCounter, lines, 1)

(* ---------------------------- state ------------------------------------ *)
VARIABLES
    lines,        \* the decompressed file, a sequence of line texts
    size,         \* batch size passed to chunked_reader
    workers,      \* pool size
    phase,        \* "Opening", "Streaming", "Finalizing", "Terminated"
    pos,          \* lines chunked_reader has consumed from f
    chunk,        \* chunked_reader's accumulating list
    exhausted,    \* the task generator has finished
    tasks,        \* every task generated so far, in submission order
    taskqueue,    \* indices of tasks no worker has taken yet
    running,      \* indices of the tasks that are inside a worker
    results,      \* results[i]: what the worker returned for task i
    outqueue,     \* indices of finished tasks the coordinator has not seen
    dispatchLog,  \* task indices in the order workers took them
    mergeLog,     \* task indices in the order final.update merged them
    final,        \* the coordinator's Counter
    printed,      \* what has been written to stdout, one entry per print
    aborted       \* an exception has left the main block

vars == << lines, size, workers, phase, pos, chunk, exhausted, tasks,
           taskqueue, running, results, outqueue, dispatchLog, mergeLog,
           final, printed, aborted >>

RECURSIVE SeqsUpTo(_, _)
SeqsUpTo(S, n) ==
    IF n = 0 THEN { <<>> }
    ELSE LET shorter == SeqsUpTo(S, n - 1)
         IN shorter \cup { Append(s, x) : s \in { t \in shorter : Len(t) = n - 1 }, x \in S }

ChunkTask(c) == [kind |-> "chunk", lines |-> c]
ReraiseTask == [kind |-> "reraise", lines |-> <<>>]

InitWith(files, sizes) ==
    /\ lines \in files
    /\ size \in sizes
    /\ workers \in 1..MaxWorkers
    /\ phase = "Opening"
    /\ pos = 0
    /\ chunk = <<>>
    /\ exhausted = FALSE
    /\ tasks = <<>>
    /\ taskqueue = <<>>
    /\ running = {}
    /\ results = [i \in {} |-> OkResult(EmptyCounter)]
    /\ outqueue = <<>>
    /\ dispatchLog = <<>>
    /\ mergeLog = <<>>
    /\ final = EmptyCounter
    /\ printed = <<>>
    /\ aborted = FALSE

\* Files read in several chunks, with small batch sizes.
Init == InitWith(SeqsUpTo(FewLineTexts, MaxLines), 1..MaxBatch)

\* Files over every kind of line, with the batch size the program has.
ChunkInit == InitWith(SeqsUpTo(LineTexts, MaxLines), {CHUNK_SIZE})

\* The files of the fair specification: shorter, over the lines that differ
\* in how a run goes on (skipped, raising, counted).
LiveInit == InitWith(SeqsUpTo(LiveLineTexts, MaxLiveLines), 1..MaxBatch)

(* ---------------------------- driver: open ----------------------------- *)
\* gzip.open succeeds, the pool starts and imap_unordered hands the
\* generator to the pool's task thread.
Open ==
    /\ phase = "Opening"
    /\ phase' = "Streaming"
    /\ UNCHANGED << lines, size, workers, pos, chunk, exhausted, tasks,
                    taskqueue, running, results, outqueue, dispatchLog,
                    mergeLog, final, printed, aborted >>

\* gzip.open raises: the exception leaves the main block before any print.
OpenFail ==
    /\ phase = "Opening"
    /\ phase' = "Terminated"
    /\ aborted' = TRUE
    /\ UNCHANGED << lines, size, workers, pos, chunk, exhausted, tasks,
                    taskqueue, running, results, outqueue, dispatchLog,
                    mergeLog, final, printed >>

(* ---------------------------- chunked_reader --------------------------- *)
\* ReadLine with the comparison len(chunk) > size.
ReadLineOffByOne ==
    /\ phase = "Streaming"
    /\ ~exhausted
    /\ pos < Len(lines)
    /\ pos' = pos + 1
    /\ LET grown == Append(chunk, lines[pos + 1])
       IN IF Len(grown) > size
          THEN /\ tasks' = Append(tasks, ChunkTask(grown))
               /\ taskqueue' = Append(taskqueue, Len(tasks) + 1)
               /\ chunk' = <<>>
          ELSE /\ chunk' = grown
               /\ UNCHANGED << tasks, taskqueue >>
    /\ UNCHANGED << lines, size, workers, phase, exhausted, running, results,
                    outqueue, dispatchLog, mergeLog, final, printed, aborted >>

\* chunk.append(line); if len(chunk) >= size: yield chunk; chunk = []
ReadLine ==
    /\ phase = "Streaming"
    /\ ~exhausted
    /\ pos < Len(lines)
    /\ pos' = pos + 1
    /\ LET grown == Append(chunk, lines[pos + 1])
       IN IF Len(grown) >= size
          THEN /\ tasks' = Append(tasks, ChunkTask(grown))
               /\ taskqueue' = Append(taskqueue, Len(tasks) + 1)
               /\ chunk' = <<>>
          ELSE /\ chunk' = grown
               /\ UNCHANGED << tasks, taskqueue >>
    /\ UNCHANGED << lines, size, workers, phase, exhausted, running, results,
                    outqueue, dispatchLog, mergeLog, final, printed, aborted >>

\* f is exhausted: if chunk: yield chunk; the generator returns.
ReadEnd ==
    /\ phase = "Streaming"
    /\ ~exhausted
    /\ pos = Len(lines)
    /\ exhausted' = TRUE
    /\ IF chunk # <<>>
       THEN /\ tasks' = Append(tasks, ChunkTask(chunk))
            /\ taskqueue' = Append(taskqueue, Len(tasks) + 1)
            /\ chunk' = <<>>
       ELSE UNCHANGED << tasks, taskqueue, chunk >>
    /\ UNCHANGED << lines, size, workers, phase, pos, running, results,
                    outqueue, dispatchLog, mergeLog, final, printed, aborted >>

\* Reading the decompressed stream raises inside the generator: the pool
\* turns the exception into one last task that re-raises it.
ReadFail ==
    /\ phase = "Streaming"
    /\ ~exhausted
    /\ exhausted' = TRUE
    /\ chunk' = <<>>
    /\ tasks' = Append(tasks, ReraiseTask)
    /\ taskqueue' = Append(taskqueue, Len(tasks) + 1)
    /\ UNCHANGED << lines, size, workers, phase, pos, running, results,
                    outqueue, dispatchLog, mergeLog, final, printed, aborted >>

(* ---------------------------- pool workers ----------------------------- *)
\* The pool's processes are interchangeable: running holds the tasks that
\* are inside a worker.  A worker that is idle takes the oldest waiting task.
WorkerTake ==
    /\ phase = "Streaming"
    /\ Cardinality(running) < workers
    /\ taskqueue # <<>>
    /\ running' = running \cup {Head(taskqueue)}
    /\ taskqueue' = Tail(taskqueue)
    /\ dispatchLog' = Append(dispatchLog, Head(taskqueue))
    /\ UNCHANGED << lines, size, workers, phase, pos, chunk, exhausted,
                    tasks, results, outqueue, mergeLog, final, printed,
                    aborted >>

\* What running a task gives back to the coordinator.
RunTask(t) ==
    IF t.kind = "reraise" THEN RaiseResult("OSError")
    ELSE process_chunk(t.lines)

\* The worker holding task i runs it to the end and queues the outcome.
WorkerFinish(i) ==
    /\ phase = "Streaming"
    /\ i \in running
    /\ results' = [j \in DOMAIN results \cup {i} |->
                      IF j = i THEN RunTask(tasks[i]) ELSE results[j]]
    /\ outqueue' = Append(outqueue, i)
    /\ running' = running \ {i}
    /\ UNCHANGED << lines, size, workers, phase, pos, chunk, exhausted,
                    tasks, taskqueue, dispatchLog, mergeLog, final, printed,
                    aborted >>

(* ---------------------------- driver: merge and print ------------------ *)
\* Merge with a failed task taken for an empty tally.
MergeIgnoresError ==
    /\ phase = "Streaming"
    /\ outqueue # <<>>
    /\ outqueue' = Tail(outqueue)
    /\ final' = CounterUpdate(final, results[Head(outqueue)].c)
    /\ mergeLog' = Append(mergeLog, Head(outqueue))
    /\ UNCHANGED << lines, size, workers, phase, pos, chunk, exhausted, tasks,
                    taskqueue, running, results, dispatchLog, printed, aborted >>

\* Merge with the outcome of a failed task thrown away.
MergeDropsError ==
    /\ phase = "Streaming"
    /\ outqueue # <<>>
    /\ outqueue' = Tail(outqueue)
    /\ LET i == Head(outqueue)
       IN IF results[i].status = "ok"
          THEN /\ final' = CounterUpdate(final, results[i].c)
               /\ mergeLog' = Append(mergeLog, i)
          ELSE UNCHANGED << final, mergeLog >>
    /\ UNCHANGED << lines, size, workers, phase, pos, chunk, exhausted, tasks,
                    taskqueue, running, results, dispatchLog, printed, aborted >>

\* for result in p.imap_unordered(...): final.update(result)
\* A task that raised re-raises in the coordinator and ends the run.
Merge ==
    /\ phase = "Streaming"
    /\ outqueue # <<>>
    /\ outqueue' = Tail(outqueue)
    /\ LET i == Head(outqueue)
       IN IF results[i].status = "ok"
          THEN /\ final' = CounterUpdate(final, results[i].c)
               /\ mergeLog' = Append(mergeLog, i)
               /\ UNCHANGED << phase, aborted >>
          ELSE /\ phase' = "Terminated"
               /\ aborted' = TRUE
               /\ UNCHANGED << final, mergeLog >>
    /\ UNCHANGED << lines, size, workers, pos, chunk, exhausted, tasks,
                    taskqueue, running, results, dispatchLog, printed >>

\* LoopEnd that does not wait for the results still under way.
LoopEndEarly ==
    /\ phase = "Streaming"
    /\ exhausted
    /\ phase' = "Finalizing"
    /\ UNCHANGED << lines, size, workers, pos, chunk, exhausted, tasks,
                    taskqueue, running, results, outqueue, dispatchLog,
                    mergeLog, final, printed, aborted >>

\* The iterator stops once every generated task has delivered its result;
\* the with block closes the file and the pool.
LoopEnd ==
    /\ phase = "Streaming"
    /\ exhausted
    /\ Len(mergeLog) = Len(tasks)
    /\ phase' = "Finalizing"
    /\ UNCHANGED << lines, size, workers, pos, chunk, exhausted, tasks,
                    taskqueue, running, results, outqueue, dispatchLog,
                    mergeLog, final, printed, aborted >>

\* print(final), then the process exits.
PrintFinal ==
    /\ phase = "Finalizing"
    /\ printed' = Append(printed, final)
    /\ phase' = "Terminated"
    /\ UNCHANGED << lines, size, workers, pos, chunk, exhausted, tasks,
                    taskqueue, running, results, outqueue, dispatchLog,
                    mergeLog, final, aborted >>

Next ==
    \/ Open
    \/ OpenFail
    \/ ReadLine
    \/ ReadEnd
    \/ ReadFail
    \/ WorkerTake
    \/ \E i \in running : WorkerFinish(i)
    \/ Merge
    \/ LoopEnd
    \/ PrintFinal

Spec == Init /\ [][Next]_vars

ChunkSpec == ChunkInit /\ [][Next]_vars

\* The coordinator, the task thread and the workers are separate threads and
\* processes: each keeps running while it has something to do.  Failures of
\* the environment (OpenFail, ReadFail) are never forced.
Fairness ==
    /\ WF_vars(Open)
    /\ WF_vars(ReadLine)
    /\ WF_vars(ReadEnd)
    /\ WF_vars(WorkerTake)
    /\ WF_vars(\E i \in running : WorkerFinish(i))
    /\ WF_vars(Merge)
    /\ WF_vars(LoopEnd)
    /\ WF_vars(PrintFinal)

FairSpec == LiveInit /\ [][Next]_vars /\ Fairness

(* ---------------------------- measures used by the properties --------- *)
\* Counter.__getitem__: the count stored under a key equal to v, 0 if none.
Lookup(c, v) ==
    IF Slot(c, v) = {} THEN 0 ELSE c[CHOOSE k \in Slot(c, v) : TRUE]

\* The count of the entry whose stored key is v itself, 0 if there is none.
Entry(c, v) == IF v \in DOMAIN c THEN c[v] ELSE 0

RECURSIVE SumOver(_, _)
SumOver(c, keys) ==
    IF keys = {} THEN 0
    ELSE LET k == CHOOSE x \in keys : TRUE
         IN c[k] + SumOver(c, keys \ {k})

\* sum(c.values())
Total(c) == SumOver(c, DOMAIN c)

RECURSIVE Concat(_)
Concat(ss) == IF ss = <<>> THEN <<>> ELSE Head(ss) \o Concat(Tail(ss))

IsChunk(t) == t.kind = "chunk"

\* The chunks chunked_reader has yielded so far, in order.
Yielded ==
    LET cs == SelectSeq(tasks, IsChunk)
    IN [i \in 1..Len(cs) |-> cs[i].lines]

\* The stream failed while it was being read.
ReadFailed == \E i \in 1..Len(tasks) : tasks[i].kind = "reraise"

\* How often index i occurs in a log.
Occurrences(log, i) == Cardinality({ n \in 1..Len(log) : log[n] = i })

(* ---------------------------- C8 --------------------------------------- *)
\* C8: the chunks chunked_reader yields, followed by what it still holds,
\* are exactly the lines read so far, in order; once the source is exhausted
\* the chunks alone are the whole file.  No chunk is empty, none is longer
\* than the batch size, every chunk but the last of an exhausted source has
\* exactly batch-size lines, and an empty source yields no chunk.
C8_ChunkedReaderPartitions ==
    LET ys == Yielded
    IN /\ ~ReadFailed => Concat(ys) \o chunk = SubSeq(lines, 1, pos)
       /\ (exhausted /\ ~ReadFailed) => Concat(ys) = lines
       /\ \A i \in 1..Len(ys) :
             /\ Len(ys[i]) >= 1
             /\ Len(ys[i]) <= size
             /\ (i < Len(ys) \/ ~exhausted) => Len(ys[i]) = size
       /\ lines = <<>> => ys = <<>>

\* A source that ends in a full chunk followed by a shorter one.
C8_Witness ==
    /\ exhausted /\ ~ReadFailed
    /\ Len(Yielded) >= 2
    /\ Len(Yielded[Len(Yielded)]) < size
    /\ Len(Yielded[1]) = size

(* ---------------------------- C4 --------------------------------------- *)
\* The loop has ended normally: the output is about to be or has been made.
LoopDone == phase = "Finalizing" \/ printed # <<>>

RECURSIVE PartialTotals(_)
PartialTotals(is) ==
    IF is = {} THEN 0
    ELSE LET i == CHOOSE x \in is : TRUE
         IN Total(results[i].c) + PartialTotals(is \ {i})

\* C4: when the final tally is emitted every chunk the reader produced has
\* been taken by exactly one worker, has been processed to the end and has
\* been merged exactly once (nothing waits in a queue or in a worker, and
\* the counts of the final tally add up to those of the partial tallies);
\* after the output nothing is merged any more.
C4_AllChunksMergedOnceAtPrint ==
    /\ [](LoopDone =>
            /\ exhausted /\ chunk = <<>> /\ pos = Len(lines)
            /\ Concat(Yielded) = lines
            /\ taskqueue = <<>> /\ running = {} /\ outqueue = <<>>
            /\ \A i \in 1..Len(tasks) :
                  /\ IsChunk(tasks[i])
                  /\ Occurrences(dispatchLog, i) = 1
                  /\ i \in DOMAIN results
                  /\ results[i] = process_chunk(tasks[i].lines)
                  /\ Occurrences(mergeLog, i) = 1
            /\ Len(dispatchLog) = Len(tasks)
            /\ Len(mergeLog) = Len(tasks)
            /\ Total(final) = PartialTotals(1..Len(tasks))
            /\ Len(printed) <= 1
            /\ printed # <<>> => printed[1] = final)
    /\ [][printed # <<>> => UNCHANGED << final, mergeLog, dispatchLog, results >>]_vars

\* The tally has been printed after two or more chunks that counted something.
C4_Witness ==
    /\ printed # <<>>
    /\ Len(tasks) >= 2
    /\ \A i \in 1..Len(tasks) : Total(results[i].c) > 0

(* ---------------------------- C9 --------------------------------------- *)
\* C9: a run in which the source could not be opened or the stream failed
\* while being read never prints anything, whatever was merged before; the
\* failure ends the reading for good (no line is read after it, no second
\* attempt is made) and the abort leaves the driver terminated.
C9_FatalAbortPrintsNothing ==
    /\ aborted => (printed = <<>> /\ phase = "Terminated")
    /\ ReadFailed =>
          /\ printed = <<>>
          /\ phase # "Finalizing"
          /\ exhausted
          /\ tasks[Len(tasks)].kind = "reraise"
          /\ \A i \in 1..(Len(tasks) - 1) : IsChunk(tasks[i])

\* The stream failed after a partial tally had been merged, and the run
\* has aborted.
C9_Witness ==
    /\ aborted
    /\ ReadFailed
    /\ mergeLog # <<>>
    /\ final # EmptyCounter

(* ---------------------------- what a line is --------------------------- *)
\* The line is blank or json.loads rejects it.
Malformed(line) == strip(line) = "" \/ json_loads(strip(line)).err

\* The line parses as a JSON object whose "status" holds the non-null v.
Contributes(line, v) ==
    /\ ~Malformed(line)
    /\ json_loads(strip(line)).isDict
    /\ json_loads(strip(line)).status = v

\* The line parses, and is no object, has no "status" or holds null there.
NoContribution(line) ==
    /\ ~Malformed(line)
    /\ \A v \in Values : ~Contributes(line, v)

CountIn(ls, v) == Cardinality({ n \in 1..Len(ls) : Contributes(ls[n], v) })

Counted(ls) == Cardinality({ n \in 1..Len(ls) : \E v \in Values : Contributes(ls[n], v) })

WellFormed(line) == ~Malformed(line)

RECURSIVE MergeInOrder(_, _)
\* The partial tallies of tasks 1..n merged in submission order.
MergeInOrder(c, n) ==
    IF n = 0 THEN c
    ELSE CounterUpdate(MergeInOrder(c, n - 1), results[n].c)

(* ---------------------------- C1 --------------------------------------- *)
\* C1: in a run that completes normally the printed tally holds, for every
\* value V, the number of lines of the file that are JSON objects whose
\* "status" is V; its counts add up to the number of such lines and it has
\* no key that no line holds.
C1_FinalTallyCountsEveryValue ==
    printed # <<>> =>
        /\ \A v \in Values : Entry(printed[1], v) = CountIn(lines, v)
        /\ Total(printed[1]) = Counted(lines)
        /\ \A k \in DOMAIN printed[1] : k \in Values /\ CountIn(lines, k) > 0

(* ---------------------------- C2 --------------------------------------- *)
\* C2: the printed tally does not depend on the batch size or the pool size:
\* it is the tally of the run whose batch size is at least the length of the
\* file (one chunk, hence one partial tally, whatever the pool size).
C2_SameTallyForEveryBatchAndPool ==
    printed # <<>> => printed[1] = process_chunk(lines).c

(* ---------------------------- C3 --------------------------------------- *)
\* C3: the printed tally does not depend on the order in which the partial
\* tallies arrived: it is what merging them in submission order gives.
C3_MergeIndependentOfArrivalOrder ==
    printed # <<>> => printed[1] = MergeInOrder(EmptyCounter, Len(tasks))

(* ---------------------------- C5 --------------------------------------- *)
\* C5: a line that parses but is no object, or has no "status", or holds
\* null there, makes process_chunk neither raise nor count: every partial
\* tally is returned normally and its counts add up to the contributing
\* lines of its chunk.
C5_NonContributingLinesAreSkipped ==
    \A i \in DOMAIN results :
        IsChunk(tasks[i]) =>
            /\ results[i].status = "ok"
            /\ Total(results[i].c) = Counted(tasks[i].lines)

(* ---------------------------- C6 --------------------------------------- *)
\* C6: blank lines and lines json.loads rejects never make process_chunk
\* raise and never touch the tally: the outcome of a chunk is the outcome of
\* the same chunk without them, a chunk that raised holds a line that did
\* parse, no tally has a key that is not a "status" value, and a run that
\* completes has counted every contributing line of the file, wherever the
\* malformed lines stand.
C6_MalformedLinesAreInert ==
    /\ \A i \in DOMAIN results :
          IsChunk(tasks[i]) =>
              /\ results[i] = process_chunk(SelectSeq(tasks[i].lines, WellFormed))
              /\ results[i].status = "raise" =>
                    \E n \in 1..Len(tasks[i].lines) : NoContribution(tasks[i].lines[n])
              /\ DOMAIN results[i].c \subseteq Values
              /\ results[i].status = "ok" =>
                    Total(results[i].c) = Counted(tasks[i].lines)
    /\ DOMAIN final \subseteq Values
    /\ LoopDone => Total(final) = Counted(lines)

\* A chunk with a malformed line before a contributing one has been counted.
C6_Witness ==
    \E i \in DOMAIN results :
        /\ IsChunk(tasks[i])
        /\ results[i].status = "ok"
        /\ Total(results[i].c) > 0
        /\ \E m, n \in 1..Len(tasks[i].lines) :
              /\ m < n
              /\ Malformed(tasks[i].lines[m])
              /\ \E v \in Values : Contributes(tasks[i].lines[n], v)

(* ---------------------------- C7 --------------------------------------- *)
\* Two values of different JSON types that both occur in ls have two entries
\* in c, each with the count of its own records.
TypeSeparated(c, ls) ==
    \A v1, v2 \in Values :
        (JsonType(v1) # JsonType(v2) /\ CountIn(ls, v1) > 0 /\ CountIn(ls, v2) > 0) =>
            /\ Slot(c, v1) # {} /\ Slot(c, v2) # {}
            /\ Slot(c, v1) # Slot(c, v2)
            /\ Lookup(c, v1) = CountIn(ls, v1)
            /\ Lookup(c, v2) = CountIn(ls, v2)

\* C7: "status" values that are scalars of different JSON types (string,
\* number, boolean) are distinct tally keys, in every partial tally and in
\* the printed tally, and each entry counts the records of its own type only.
C7_ScalarsOfDifferentTypeAreDistinctKeys ==
    /\ \A i \in DOMAIN results :
          (IsChunk(tasks[i]) /\ results[i].status = "ok") =>
              TypeSeparated(results[i].c, tasks[i].lines)
    /\ printed # <<>> => TypeSeparated(printed[1], lines)

(* ---------------------------- C10 -------------------------------------- *)
PhaseRank(p) ==
    CASE p = "Opening" -> 0
      [] p = "Streaming" -> 1
      [] p = "Finalizing" -> 2
      [] p = "Terminated" -> 3

\* C10: the driver only moves forward through Opening, Streaming, Finalizing
\* and Terminated (Finalizing is entered from Streaming only); with the
\* coordinator, the reader and the workers scheduled fairly every run ends
\* in Terminated, either after Finalizing with the tally printed exactly once
\* or aborted with nothing printed; a run on an empty source reaches
\* Finalizing with an empty tally unless it aborts.
C10_ForwardOnlyAndTerminates ==
    /\ [][/\ PhaseRank(phase') >= PhaseRank(phase)
          /\ (phase' = "Finalizing" /\ phase # "Finalizing") => phase = "Streaming"
          /\ (phase' = "Streaming" /\ phase # "Streaming") => phase = "Opening"]_vars
    /\ <>(phase = "Terminated")
    /\ [](Len(printed) <= 1)
    /\ [](phase = "Terminated" =>
            \/ aborted /\ printed = <<>>
            \/ ~aborted /\ Len(printed) = 1)
    /\ [](printed # <<>> => phase = "Terminated")
    /\ [](lines = <<>> /\ phase = "Finalizing" => final = EmptyCounter)
    /\ [](lines = <<>> /\ printed # <<>> => printed = << EmptyCounter >>)
    /\ (lines = <<>> /\ phase = "Opening") ~> (phase = "Finalizing" \/ aborted)

\* A run over several chunks has terminated with its tally printed.
C10_Witness ==
    /\ phase = "Terminated"
    /\ ~aborted
    /\ Len(printed) = 1
    /\ Len(tasks) >= 2
    /\ final # EmptyCounter

TypeOK ==
    /\ phase \in {"Opening", "Streaming", "Finalizing", "Terminated"}
    /\ pos \in 0..Len(lines)
    /\ Len(chunk) < size
    /\ \A k \in DOMAIN final : final[k] > 0

====
